---- MODULE Spec2Model ----
(***************************************************************************)
(* Model of the /upload handler of the image captioner (src/src/main.rs):  *)
(* upload_image, generate_caption and the process-wide AppState.           *)
(* Each request is a small process whose steps are the handler's await     *)
(* points: next_field, bytes, send, text.                                  *)
(***************************************************************************)
EXTENDS Integers, Sequences, FiniteSets, TLC

\* ---------------------------------------------------------------- bounds
NReq == 2
MaxFields == 2
MaxClock == 2

\* ------------------------------------------------------ program constants
PreviewLimit == 500
OK == 200
BAD_REQUEST == 400
INTERNAL_SERVER_ERROR == 500
ModelLabel == "Google Gemini 1.5 Flash"

Reqs == 1..NReq
Keys == {"key-A", "key-B"}

\* ------------------------------------------------------------ the inputs
\* SendAwait's outcome 0 is a transport error, any other value the status of
\* the response head.
\* One item of a multipart stream, by what the handler can observe of it:
\*   "streamerr"   next_field() yields Err (malformed / truncated body)
\*   "readerr"     next_field() yields the field, bytes() yields Err
\*   "garbage"     bytes that load_from_memory rejects
\*   "unencodable" bytes that decode but whose JPEG write fails
\*   "image"       bytes that decode and re-encode
Items == {"streamerr", "readerr", "garbage", "unencodable", "image"}

RECURSIVE SeqsUpTo(_, _)
SeqsUpTo(S, n) ==
    IF n = 0 THEN {<<>>}
    ELSE LET shorter == SeqsUpTo(S, n - 1)
         IN  shorter \cup {Append(s, x) : s \in {t \in shorter : Len(t) = n - 1}, x \in S}

Bodies == SeqsUpTo(Items, MaxFields)

\* The upstream body text, by its byte layout (pre one-byte characters, one
\* character of w bytes, post one-byte characters; all zero: the empty body)
\* and the document it holds.
Layouts ==
    { [pre |-> 0,   w |-> 0, post |-> 0],
      [pre |-> 10,  w |-> 1, post |-> 0],
      [pre |-> 499, w |-> 1, post |-> 0],
      [pre |-> 500, w |-> 3, post |-> 2],
      [pre |-> 498, w |-> 2, post |-> 3],
      [pre |-> 499, w |-> 2, post |-> 3],
      [pre |-> 497, w |-> 4, post |-> 0] }

DocIds == 1..7
Texts == [doc : DocIds, bytes : Layouts]
NoText == [doc |-> 0, bytes |-> [pre |-> 0, w |-> 0, post |-> 0]]

Statuses == {200, 299, 300, 503}

\* ------------------------------------------------------- serde_json::Value
JNull == [t |-> "null"]
JStr(s) == [t |-> "str", s |-> s]
JNum(n) == [t |-> "num", n |-> n]
JArr(a) == [t |-> "arr", a |-> a]
JObj(o) == [t |-> "obj", o |-> o]

\* Value::index(&str) and Value::index(usize): Null when absent.
Key(v, k) == IF v.t = "obj" /\ k \in DOMAIN v.o THEN v.o[k] ELSE JNull
At(v, i) == IF v.t = "arr" /\ (i + 1) \in DOMAIN v.a THEN v.a[i + 1] ELSE JNull

Candidates(text) == JObj([candidates |-> JArr(<<JObj([content |-> JObj([parts |-> JArr(<<JObj([text |-> text])>>)])])>>)])

\* serde_json::from_str on the documents the upstream can answer with.
from_str(doc) ==
    CASE doc = 1 -> [ok |-> TRUE,  v |-> Candidates(JStr("a cat on a mat"))]
      [] doc = 2 -> [ok |-> TRUE,  v |-> Candidates(JStr(""))]
      [] doc = 3 -> [ok |-> TRUE,  v |-> Candidates(JNum(42))]
      [] doc = 4 -> [ok |-> TRUE,  v |-> JObj([candidates |-> JArr(<<>>)])]
      [] doc = 5 -> [ok |-> TRUE,  v |-> JObj([error |-> JObj([message |-> JStr("quota")])])]
      [] doc = 6 -> [ok |-> TRUE,  v |-> JArr(<<JStr("a cat on a mat")>>)]
      [] OTHER   -> [ok |-> FALSE, v |-> JNull]

\* ------------------------------------------------- generate_caption, tail
Min(a, b) == IF a < b THEN a ELSE b

\* String::len(): length in bytes.
ByteLen(text) == text.bytes.pre + text.bytes.w + text.bytes.post

\* str::is_char_boundary(k): 0 and len are boundaries; otherwise k must not
\* fall inside the multi-byte character.
is_char_boundary(text, k) ==
    \/ k = 0
    \/ k = ByteLen(text)
    \/ k <= text.bytes.pre
    \/ k >= text.bytes.pre + text.bytes.w

\* &response_text[..response_text.len().min(500)]: the slice exists only when
\* its end is a character boundary; otherwise the index expression panics.
preview_ok(text) == is_char_boundary(text, Min(ByteLen(text), PreviewLimit))

\* StatusCode::is_success
is_success(status) == status >= 200 /\ status < 300

\* result["candidates"][0]["content"]["parts"][0]["text"]
caption_path(v) == Key(At(Key(Key(At(Key(v, "candidates"), 0), "content"), "parts"), 0), "text")

\* The outcome decided by the status and the caption path (lines 85-98).
extract_caption(status, text) ==
    IF ~is_success(status) THEN [kind |-> "err", caption |-> ""]
    ELSE LET parsed == from_str(text.doc)
         IN  IF ~parsed.ok THEN [kind |-> "err", caption |-> ""]
             ELSE LET c == caption_path(parsed.v)
                  IN  IF c.t = "str" THEN [kind |-> "ok", caption |-> c.s]
                      ELSE [kind |-> "err", caption |-> ""]

\* Lines 77-98: the diagnostic output, then the outcome.
caption_result(status, text) ==
    IF ~preview_ok(text) THEN [kind |-> "panic", caption |-> ""]
    ELSE extract_caption(status, text)

\* -------------------------------------------------------- image handling
\* image::load_from_memory(&data) succeeded.
\* (variant: every byte sequence is taken for an image)
load_from_memory_any(item) == TRUE
load_from_memory(item) == item \in {"unencodable", "image"}

\* img.write_to(.., Jpeg(85)) succeeded.
\* (variant: the write result is not checked)
write_to_unchecked(item) == TRUE
write_to(item) == item = "image"

\* ------------------------------------------------------------- responses
NoResp == [status |-> 0, json |-> FALSE, caption |-> "", model |-> "", processing_time_ms |-> 0]
ErrResp(code) == [status |-> code, json |-> FALSE, caption |-> "", model |-> "", processing_time_ms |-> 0]
JsonResp(c, ms) == [status |-> OK, json |-> TRUE, caption |-> c, model |-> ModelLabel, processing_time_ms |-> ms]

\* Err(StatusCode::BAD_REQUEST) after the loop.
\* (variant: the fall-through reports a server fault)
NoFieldError == ErrResp(INTERNAL_SERVER_ERROR)
NoFieldResponse == ErrResp(BAD_REQUEST)

NoUpstream == [state |-> "none", status |-> 0, text |-> NoText]

\* ------------------------------------------------------------------ state
VARIABLES api_key, clock, pc, request, multipart, field, start, posts,
          upstream, resp, arrived, finished

vars == <<api_key, clock, pc, request, multipart, field, start, posts,
          upstream, resp, arrived, finished>>

Init ==
    /\ api_key \in Keys
    /\ clock = 0
    /\ pc = [r \in Reqs |-> "idle"]
    /\ request = [r \in Reqs |-> <<>>]
    /\ multipart = [r \in Reqs |-> <<>>]
    /\ field = [r \in Reqs |-> "none"]
    /\ start = [r \in Reqs |-> 0]
    /\ posts = [r \in Reqs |-> <<>>]
    /\ upstream = [r \in Reqs |-> NoUpstream]
    /\ resp = [r \in Reqs |-> NoResp]
    /\ arrived = [r \in Reqs |-> 0]
    /\ finished = [r \in Reqs |-> 0]

\* The handler returns rs to the framework, which answers the client.
Respond(r, rs) ==
    /\ pc' = [pc EXCEPT ![r] = "responded"]
    /\ resp' = [resp EXCEPT ![r] = rs]
    /\ finished' = [finished EXCEPT ![r] = clock]

\* unwrap() on Err or a slice off a character boundary: the task unwinds and
\* the connection is dropped without a response.
Panic(r) ==
    /\ pc' = [pc EXCEPT ![r] = "panicked"]
    /\ finished' = [finished EXCEPT ![r] = clock]
    /\ UNCHANGED resp

\* let start = Instant::now(): a local of the request.
\* (variant: one start cell shared by all requests)
InstantShared(st, r, now) == [q \in DOMAIN st |-> now]
InstantNow(st, r, now) == [st EXCEPT ![r] = now]

\* A request with multipart body b reaches the handler.
Receive(r, b) ==
    /\ pc[r] = "idle"
    /\ pc' = [pc EXCEPT ![r] = "next_field"]
    /\ request' = [request EXCEPT ![r] = b]
    /\ multipart' = [multipart EXCEPT ![r] = b]
    /\ start' = InstantNow(start, r, clock)
    /\ arrived' = [arrived EXCEPT ![r] = clock]
    /\ UNCHANGED <<api_key, clock, field, posts, upstream, resp, finished>>

\* while let Some(field) = multipart.next_field().await.unwrap()
NextField(r) ==
    /\ pc[r] = "next_field"
    /\ IF multipart[r] = <<>>
         THEN Respond(r, NoFieldResponse) /\ UNCHANGED <<multipart, field>>
         ELSE IF Head(multipart[r]) = "streamerr"
                THEN Panic(r) /\ UNCHANGED <<multipart, field>>
                ELSE /\ field' = [field EXCEPT ![r] = Head(multipart[r])]
                     /\ multipart' = [multipart EXCEPT ![r] = Tail(multipart[r])]
                     /\ pc' = [pc EXCEPT ![r] = "bytes"]
                     /\ UNCHANGED <<resp, finished>>
    /\ UNCHANGED <<api_key, clock, request, start, posts, upstream, arrived>>

\* .map_err(|_| StatusCode::BAD_REQUEST)? on the decode.
\* (variant: the loop goes on to the next field)
DecodeFailedContinue(r) ==
    /\ pc' = [pc EXCEPT ![r] = "next_field"]
    /\ UNCHANGED <<resp, finished>>
DecodeFailed(r) == Respond(r, ErrResp(BAD_REQUEST))

\* field.bytes().await.unwrap(), decode, re-encode, base64, and the POST of
\* generate_caption up to .send().
ReadBytes(r) ==
    /\ pc[r] = "bytes"
    /\ IF field[r] = "readerr"
         THEN Panic(r) /\ UNCHANGED posts
         ELSE IF ~load_from_memory(field[r])
                THEN DecodeFailed(r) /\ UNCHANGED posts
                ELSE IF ~write_to(field[r])
                       THEN Respond(r, ErrResp(INTERNAL_SERVER_ERROR)) /\ UNCHANGED posts
                       ELSE /\ posts' = [posts EXCEPT ![r] = Append(posts[r], api_key)]
                            /\ pc' = [pc EXCEPT ![r] = "send"]
                            /\ UNCHANGED <<resp, finished>>
    /\ UNCHANGED <<api_key, clock, request, multipart, field, start, upstream, arrived>>

\* .send().await? resolves: a transport error or the response head.
SendAwait(r, o) ==
    /\ pc[r] = "send"
    /\ IF o = 0
         THEN /\ upstream' = [upstream EXCEPT ![r] = [NoUpstream EXCEPT !.state = "senderr"]]
              /\ Respond(r, ErrResp(INTERNAL_SERVER_ERROR))
         ELSE /\ upstream' = [upstream EXCEPT ![r] = [state |-> "head", status |-> o, text |-> NoText]]
              /\ pc' = [pc EXCEPT ![r] = "text"]
              /\ UNCHANGED <<resp, finished>>
    /\ UNCHANGED <<api_key, clock, request, multipart, field, start, posts, arrived>>

\* response.text().await? resolves (ok = FALSE: the body read failed), then
\* the rest of generate_caption and of the handler run to the return.
TextAwait(r, ok, t) ==
    /\ pc[r] = "text"
    /\ IF ~ok
         THEN /\ upstream' = [upstream EXCEPT ![r].state = "texterr"]
              /\ Respond(r, ErrResp(INTERNAL_SERVER_ERROR))
         ELSE /\ upstream' = [upstream EXCEPT ![r].state = "body", ![r].text = t]
              /\ LET res == caption_result(upstream[r].status, t)
                 IN  CASE res.kind = "panic" -> Panic(r)
                       [] res.kind = "err" -> Respond(r, ErrResp(INTERNAL_SERVER_ERROR))
                       [] OTHER -> Respond(r, JsonResp(res.caption, clock - start[r]))
    /\ UNCHANGED <<api_key, clock, request, multipart, field, start, posts, arrived>>

\* Wall-clock time passes.
Tick ==
    /\ clock < MaxClock
    /\ clock' = clock + 1
    /\ UNCHANGED <<api_key, pc, request, multipart, field, start, posts,
                   upstream, resp, arrived, finished>>

\* One request, every input.
Next ==
    \/ \E b \in Bodies : Receive(1, b)
    \/ NextField(1)
    \/ ReadBytes(1)
    \/ \E o \in {0} \cup Statuses : SendAwait(1, o)
    \/ \E t \in Texts : TextAwait(1, TRUE, t)
    \/ TextAwait(1, FALSE, NoText)
    \/ Tick

Spec == Init /\ [][Next]_vars

\* Concurrent requests, in any interleaving of their await points.
ConcBodies == {<<>>, <<"garbage">>, <<"image">>}
ConcStatuses == {0, 200, 503}
ConcTexts == { [doc |-> 1, bytes |-> [pre |-> 10, w |-> 1, post |-> 0]],
               [doc |-> 5, bytes |-> [pre |-> 499, w |-> 2, post |-> 3]] }

NextConc ==
    \/ \E r \in Reqs, b \in ConcBodies : Receive(r, b)
    \/ \E r \in Reqs : NextField(r)
    \/ \E r \in Reqs : ReadBytes(r)
    \/ \E r \in Reqs, o \in ConcStatuses : SendAwait(r, o)
    \/ \E r \in Reqs, t \in ConcTexts : TextAwait(r, TRUE, t)
    \/ \E r \in Reqs : TextAwait(r, FALSE, NoText)
    \/ Tick

SpecConc == Init /\ [][NextConc]_vars

Finished(r) == pc[r] \in {"responded", "panicked"}

\* ------------------------------------------------------------- vocabulary
\* The first item of the request's multipart stream is x.
FirstIs(r, x) == pc[r] # "idle" /\ request[r] # <<>> /\ request[r][1] = x

\* Fields the handler has taken from the stream.
FieldsRead(r) == Len(request[r]) - Len(multipart[r])

Rejected(r, code) == pc[r] = "responded" /\ resp[r] = ErrResp(code)

BodyReceived(r) == Finished(r) /\ upstream[r].state = "body"

\* ------------------------------------------------------------------ claims

\* C1: a request whose file field (the field the handler reads) holds bytes
\* that do not decode as an image never issues an outbound call, and is
\* answered 400.
C1_UndecodableRejectedBeforeCall ==
    \A r \in Reqs :
        FirstIs(r, "garbage") =>
            /\ posts[r] = <<>>
            /\ Finished(r) => Rejected(r, BAD_REQUEST)

C1_Witness ==
    \E r \in Reqs : FirstIs(r, "garbage") /\ Rejected(r, BAD_REQUEST) /\ posts[r] = <<>>

\* C2: every failure is converted to an HTTP status: a finished request was
\* answered with a complete CaptionResult or with a bare error status.
C2_AlwaysAnswered ==
    \A r \in Reqs :
        Finished(r) =>
            /\ pc[r] = "responded"
            /\ \/ /\ resp[r].status = OK
                  /\ resp[r].json
               \/ /\ resp[r].status \in {BAD_REQUEST, INTERNAL_SERVER_ERROR}
                  /\ ~resp[r].json

\* C3: a non-2xx upstream status is answered 500 without a caption, whatever
\* the upstream body holds.
C3_UpstreamErrorIs500 ==
    \A r \in Reqs :
        (Finished(r) /\ upstream[r].state \in {"body", "texterr"} /\ ~is_success(upstream[r].status))
            => Rejected(r, INTERNAL_SERVER_ERROR)

\* C4: a 2xx upstream answer whose body is not JSON, or has no string at
\* candidates[0].content.parts[0].text, is answered 500 without a caption.
C4_MalformedResponseIs500 ==
    \A r \in Reqs :
        (/\ BodyReceived(r)
         /\ is_success(upstream[r].status)
         /\ \/ ~from_str(upstream[r].text.doc).ok
            \/ caption_path(from_str(upstream[r].text.doc).v).t # "str")
            => Rejected(r, INTERNAL_SERVER_ERROR)

\* C5: a request whose multipart body has no field is answered 400 and issues
\* no outbound call.
C5_NoFieldIs400 ==
    \A r \in Reqs :
        (pc[r] # "idle" /\ request[r] = <<>>) =>
            /\ posts[r] = <<>>
            /\ Finished(r) => Rejected(r, BAD_REQUEST)

C5_Witness ==
    \E r \in Reqs : request[r] = <<>> /\ Rejected(r, BAD_REQUEST) /\ posts[r] = <<>>

\* C6: a request sends at most one POST; it has sent one exactly when the
\* decode and the re-encode both succeeded, also after any upstream failure.
C6_AtMostOnePost ==
    \A r \in Reqs :
        /\ Len(posts[r]) <= 1
        /\ Len(posts[r]) = 1 => FirstIs(r, "image")
        /\ Finished(r) => (Len(posts[r]) = 1 <=> FirstIs(r, "image"))

C6_Witness ==
    \E r \in Reqs :
        /\ Rejected(r, INTERNAL_SERVER_ERROR)
        /\ upstream[r].state = "body"
        /\ Len(request[r]) > 1
        /\ Len(posts[r]) = 1

\* C7: a decodable image and a successful external call give 200 with a
\* non-empty caption, the fixed model label and a duration >= 0.
C7_SuccessIsComplete ==
    \A r \in Reqs :
        (/\ BodyReceived(r)
         /\ is_success(upstream[r].status)
         /\ from_str(upstream[r].text.doc).ok
         /\ caption_path(from_str(upstream[r].text.doc).v).t = "str")
            => /\ pc[r] = "responded"
               /\ resp[r].status = OK
               /\ resp[r].json
               /\ resp[r].caption # ""
               /\ resp[r].model = ModelLabel
               /\ resp[r].processing_time_ms >= 0

\* C8: the outcome of a request depends on its own inputs only: two finished
\* requests with equal inputs have equal outcomes, the reported duration is
\* the request's own, every outbound call carries the credential, and the
\* credential is never written.
C8_OwnInputs(r) == <<request[r], upstream[r], arrived[r], finished[r]>>

C8_State ==
    /\ \A r, q \in Reqs :
           (Finished(r) /\ Finished(q) /\ C8_OwnInputs(r) = C8_OwnInputs(q))
               => (pc[r] = pc[q] /\ resp[r] = resp[q])
    /\ \A r \in Reqs :
           (Finished(r) /\ resp[r].json) => resp[r].processing_time_ms = finished[r] - arrived[r]
    /\ \A r \in Reqs : \A i \in DOMAIN posts[r] : posts[r][i] = api_key

C8_Independent == []C8_State /\ [][api_key' = api_key]_vars

C8_Witness ==
    \E r, q \in Reqs :
        /\ r # q
        /\ Finished(r) /\ Finished(q)
        /\ arrived[r] < arrived[q] /\ arrived[q] < finished[r]
        /\ resp[r].json /\ resp[q].json
        /\ resp[r].processing_time_ms # resp[q].processing_time_ms
        /\ posts[r] = posts[q]

\* C9: the diagnostic output does not change the outcome: for every status
\* and body the outcome is the one the status and the caption path decide.
C9_DiagnosticIsInert ==
    \A r \in Reqs :
        BodyReceived(r) =>
            LET e == extract_caption(upstream[r].status, upstream[r].text)
            IN  /\ pc[r] = "responded"
                /\ e.kind = "ok" => (resp[r].status = OK /\ resp[r].caption = e.caption)
                /\ e.kind = "err" => resp[r] = ErrResp(INTERNAL_SERVER_ERROR)

\* C10: only the first field is ever read: at most one field is taken from
\* the stream, at most one call is made, and a first field that does not
\* decode is answered 400 whatever follows it.
C10_FirstFieldDecides ==
    \A r \in Reqs :
        /\ FieldsRead(r) <= 1
        /\ Len(posts[r]) <= 1
        /\ Finished(r) => Len(multipart[r]) >= Len(request[r]) - 1
        /\ (Finished(r) /\ FirstIs(r, "garbage")) => (Rejected(r, BAD_REQUEST) /\ posts[r] = <<>>)

C10_Witness ==
    \E r \in Reqs :
        /\ request[r] = <<"garbage", "image">>
        /\ Rejected(r, BAD_REQUEST)
        /\ multipart[r] = <<"image">>

====
